---- MODULE Spec2Model ----
(***************************************************************************)
(* Model of src/dna/main.js: the Renderer class of the DNA viewer.         *)
(*                                                                         *)
(* One Renderer is constructed on DOMContentLoaded.  Its constructor sets  *)
(* up camera, renderer, composer and lights and calls loadModel(), which   *)
(* issues the material (MTL) load.  Everything after that is driven by     *)
(* callbacks on the single JavaScript thread: MTL success / error, OBJ     *)
(* success / error, window resize, and the requestAnimationFrame callback  *)
(* (animate).  Each callback runs to completion, so each is one action.    *)
(*                                                                         *)
(* Numbers.  JavaScript numbers are IEEE doubles.  Angles are modelled in  *)
(* fixed point, unit 1e-6 rad, products rounded to nearest.  Lengths and   *)
(* the scale factor are modelled in fixed point, unit 1e-3, with the two   *)
(* special values Inf and NaN that a division by zero produces.            *)
(***************************************************************************)
EXTENDS Integers, Sequences, FiniteSets, TLC

VARIABLES
    mtlState,        \* material request: "pending" | "loaded" | "failed"
    objState,        \* mesh request: "none" | "pending" | "loaded" | "failed"
    model,           \* this.model
    pivot,           \* this.pivot
    targetRotation,  \* this.targetRotation
    isAnimating,     \* this.isAnimating (undefined, hence falsy, until set)
    rafPending,      \* callbacks registered with requestAnimationFrame
    camera,          \* this.camera: fov, aspect, position
    viewSize,        \* size given to renderer.setSize and composer.setSize
    sceneChildren,   \* this.scene.children
    drawn,           \* what composer.render() last drew
    errorLog,        \* console.error output
    framingSteps,    \* order in which the OBJ success callback transformed and measured the mesh
    targetsDrawn,    \* number of targets drawn by updateRotation
    probe            \* a camera and a mesh given to the framing code, and what it computed

vars == <<mtlState, objState, model, pivot, targetRotation, isAnimating,
          rafPending, camera, viewSize, sceneChildren, drawn, errorLog,
          framingSteps, targetsDrawn, probe>>

\* ------------------------------------------------------------------------
\* Bounds of the model and the environment's inputs

\* updateRotation draws at most this many targets
MaxTargets == 2

\* Values returned by Math.random(), in thousandths, all in [0, 1)
RandVals == {0, 999}

\* window.innerWidth values delivered with resize events (pixels)
Widths == {1280, 1920}

\* window.screen.height (pixels)
ScreenHeight == 1080

\* null / undefined object reference
NULL == [null |-> TRUE]

\* ------------------------------------------------------------------------
\* Arithmetic

Abs(x) == IF x < 0 THEN -x ELSE x

Sign(x) == IF x < 0 THEN -1 ELSE IF x > 0 THEN 1 ELSE 0

Max(a, b) == IF a >= b THEN a ELSE b

Min(a, b) == IF a <= b THEN a ELSE b

\* a / b rounded to the nearest integer, symmetric about zero (b > 0)
RoundDiv(a, b) == Sign(a) * ((2 * Abs(a) + b) \div (2 * b))

\* Floor of the square root of n >= 0, by bisection
RECURSIVE SqrtBetween(_, _, _)
SqrtBetween(n, lo, hi) ==
    IF hi - lo <= 1 THEN lo
    ELSE LET mid == (lo + hi) \div 2
         IN  IF mid * mid <= n THEN SqrtBetween(n, mid, hi)
             ELSE SqrtBetween(n, lo, mid)

Sqrt(n) == SqrtBetween(n, 0, 46340)

\* A JavaScript number as the framing code sees it: a fixed-point value
\* with unit 1e-3, or one of the IEEE specials.  A division by zero gives
\* Inf (NaN for 0/0) and every operation on NaN gives NaN.
Num(v) == [kind |-> "num", v |-> v]

NaN == [kind |-> "nan", v |-> 0]

Inf == [kind |-> "inf", v |-> 0]

IsNum(a) == a.kind = "num"

FDiv(a, b) ==
    IF ~IsNum(a) \/ ~IsNum(b) THEN NaN
    ELSE IF b.v = 0 THEN (IF a.v = 0 THEN NaN ELSE Inf)
    ELSE Num(RoundDiv(a.v * 1000, b.v))

FSub(a, b) == IF IsNum(a) /\ IsNum(b) THEN Num(a.v - b.v) ELSE NaN

FNeg(a) == IF IsNum(a) THEN Num(-a.v) ELSE NaN

FHalf(a) == IF IsNum(a) THEN Num(RoundDiv(a.v, 2)) ELSE NaN

\* Math.max of two numbers
FMax(a, b) ==
    IF ~IsNum(a) \/ ~IsNum(b) THEN NaN
    ELSE IF a.v >= b.v THEN a ELSE b

\* tan(x) for x in 1e-3 rad, by its series x + x^3/3 + 2x^5/15
Tan(x) ==
    LET x2 == RoundDiv(x * x, 1000)
        x3 == RoundDiv(x2 * x, 1000)
        x5 == RoundDiv(x3 * x2, 1000)
    IN  x + RoundDiv(x3, 3) + RoundDiv(2 * x5, 15)

\* ------------------------------------------------------------------------
\* Camera (setupCamera) and viewport height

\* Vertical field of view of the PerspectiveCamera, in degrees
CameraFov == 18

\* camera.position.set(2, 0, 0), in units of 1e-3
CameraPosition == <<2000, 0, 0>>

\* Math.PI / 180 in 1e-6 rad per degree
PiOver180 == 17453

\* this.camera after setupCamera, for window.innerWidth = w
SetupCamera(w) ==
    [fov |-> CameraFov,
     aspect |-> RoundDiv(w * 1000, ScreenHeight),
     position |-> CameraPosition]

\* camera.position.length(), in units of 1e-3
Length(v) == Sqrt(v[1] * v[1] + v[2] * v[2] + v[3] * v[3])

\* 2 * Math.tan(vFOV / 2) * camera.position.length(), vFOV = fov * PI / 180
ViewportHeight(cam) ==
    LET vFOV == RoundDiv(cam.fov * PiOver180, 1000)
    IN  RoundDiv(2 * Tan(RoundDiv(vFOV, 2)) * Length(cam.position), 1000)

\* ------------------------------------------------------------------------
\* The mesh delivered by OBJLoader and its bounding box (THREE.Box3)

\* Bounding boxes of the geometry in obj.obj that the model considers, in the
\* mesh's local coordinates: a box off centre and a single point
Geometries ==
    { [min |-> <<0, -500, 1000>>, max |-> <<4000, 500, 3000>>],
      [min |-> <<0, 0, 0>>, max |-> <<0, 0, 0>>] }

\* The Group OBJLoader hands to the success callback: default transform
LoadedObject(g) ==
    [geometry |-> g,
     position |-> <<0, 0, 0>>,
     rotation |-> <<0, 0, 0>>,
     scale |-> Num(1000)]

\* Euler rotation (degrees, order XYZ) applied to a point; the callback only
\* ever sets (0,0,0) and (-90,90,0), whose matrix maps (x,y,z) to (z,-x,-y)
RotatePoint(rot, v) ==
    IF rot = <<-90, 90, 0>> THEN <<v[3], -v[1], -v[2]>> ELSE v

\* object.matrixWorld applied to a local point (finite scale)
ToWorld(obj, v) ==
    LET s == [i \in 1..3 |-> RoundDiv(v[i] * obj.scale.v, 1000)]
        r == RotatePoint(obj.rotation, s)
    IN  [i \in 1..3 |-> r[i] + obj.position[i]]

\* new THREE.Box3().setFromObject(obj): world-space box of the object under
\* its current transform.  An infinite scale puts NaN in every matrix entry.
ComputeBounds(obj) ==
    IF ~IsNum(obj.scale)
    THEN [min |-> <<NaN, NaN, NaN>>, max |-> <<NaN, NaN, NaN>>]
    ELSE LET a == ToWorld(obj, obj.geometry.min)
             b == ToWorld(obj, obj.geometry.max)
         IN  [min |-> [i \in 1..3 |-> Num(Min(a[i], b[i]))],
              max |-> [i \in 1..3 |-> Num(Max(a[i], b[i]))]]

\* box.getSize / box.getCenter
GetSize(box) == [i \in 1..3 |-> FSub(box.max[i], box.min[i])]

GetCenter(box) ==
    [i \in 1..3 |-> IF IsNum(box.min[i]) /\ IsNum(box.max[i])
                    THEN Num(RoundDiv(box.min[i].v + box.max[i].v, 2))
                    ELSE NaN]

\* ------------------------------------------------------------------------
\* Framing: the body of the OBJ success callback up to the pivot position.
\* Each step takes and returns the callback's local state c: the object, the
\* camera, the constants computed so far, and the list of steps done.

\* viewportHeight * 3.2, in units of 1e-3
FillFactor == 3200

\* viewportHeight * 0.4, in units of 1e-3
ShiftFactor == 400

\* const box = new THREE.Box3().setFromObject(object); size; center
MeasureOriginal(c) ==
    LET box == ComputeBounds(c.object)
    IN  [c EXCEPT !.size = GetSize(box),
                  !.center = GetCenter(box),
                  !.steps = Append(@, "measureB0")]

\* Variant: the mesh scaled to the viewport height itself, the factor 3.2
\* left out
ComputeScale_NoFill(c) ==
    LET viewportHeight == ViewportHeight(c.camera)
        maxDim == FMax(FMax(c.size[1], c.size[2]), c.size[3])
    IN  [c EXCEPT !.viewportHeight = viewportHeight,
                  !.maxDim = maxDim,
                  !.scale = FDiv(Num(viewportHeight), maxDim)]

\* vFOV, viewportHeight, targetSize, maxDim, scale
ComputeScale(c) ==
    LET viewportHeight == ViewportHeight(c.camera)
        targetSize == RoundDiv(viewportHeight * FillFactor, 1000)
        maxDim == FMax(FMax(c.size[1], c.size[2]), c.size[3])
    IN  [c EXCEPT !.viewportHeight = viewportHeight,
                  !.maxDim = maxDim,
                  !.scale = FDiv(Num(targetSize), maxDim)]

\* object.scale.setScalar(scale)
ApplyScale(c) ==
    [c EXCEPT !.object.scale = c.scale,
              !.steps = Append(@, "scale")]

\* object.position.set(0, 0, 0); object.rotation.set(0, 0, 0)
ResetTransform(c) ==
    [c EXCEPT !.object.position = <<0, 0, 0>>,
              !.object.rotation = <<0, 0, 0>>,
              !.steps = Append(@, "reset")]

\* object.rotation.x = -Math.PI / 2; object.rotation.y = Math.PI / 2
LayFlat(c) ==
    [c EXCEPT !.object.rotation[1] = -90,
              !.object.rotation[2] = 90,
              !.steps = Append(@, "rotate")]

\* rotatedBox, rotatedCenter, rotatedSize
MeasureRotated(c) ==
    LET rotatedBox == ComputeBounds(c.object)
    IN  [c EXCEPT !.rotatedCenter = GetCenter(rotatedBox),
                  !.rotatedSize = GetSize(rotatedBox),
                  !.steps = Append(@, "measureB1")]

\* Variant: the offset taken from the original bounds (center, size)
PivotPosition_FromOriginal(c) ==
    LET viewportShift == RoundDiv(c.viewportHeight * ShiftFactor, 1000)
    IN  [c EXCEPT !.pivotPosition =
                      << FNeg(c.center[1]),
                         FSub(FHalf(c.size[2]), Num(viewportShift)),
                         FNeg(c.center[3]) >>]

\* viewportShift and the arguments of this.pivot.position.set
PivotPosition(c) ==
    LET viewportShift == RoundDiv(c.viewportHeight * ShiftFactor, 1000)
    IN  [c EXCEPT !.pivotPosition =
                      << FNeg(c.rotatedCenter[1]),
                         FSub(FHalf(c.rotatedSize[2]), Num(viewportShift)),
                         FNeg(c.rotatedCenter[3]) >>]

\* The callback's locals on entry
FramingStart(object, cam) ==
    [object |-> object, camera |-> cam,
     size |-> <<NaN, NaN, NaN>>, center |-> <<NaN, NaN, NaN>>,
     viewportHeight |-> 0, maxDim |-> NaN, scale |-> NaN,
     rotatedCenter |-> <<NaN, NaN, NaN>>, rotatedSize |-> <<NaN, NaN, NaN>>,
     pivotPosition |-> <<NaN, NaN, NaN>>,
     steps |-> <<>>]

\* Variant: position and rotation reset before the first measurement
FrameObject_ResetFirst(object, cam) ==
    PivotPosition(
      MeasureRotated(
        LayFlat(
          ApplyScale(
            ComputeScale(
              MeasureOriginal(
                ResetTransform(
                  FramingStart(object, cam))))))))

\* The steps in the order the callback runs them
FrameObject(object, cam) ==
    PivotPosition(
      MeasureRotated(
        LayFlat(
          ResetTransform(
            ApplyScale(
              ComputeScale(
                MeasureOriginal(
                  FramingStart(object, cam))))))))

\* ------------------------------------------------------------------------
\* Idle rotation (updateRotation).  Angles in units of 1e-6 rad.

\* Convergence tolerance 0.001 rad
Epsilon == 1000

\* rotationSpeed = 0.0015 = RotationSpeed / 10000
RotationSpeed == 15

\* Variant: a random angle between 3 and 19 degrees (Math.random() * 16 + 3)
NewAngle_Wide(r) == RoundDiv((r * 16 + 3000) * PiOver180, 1000)

\* (Math.random() * 13 + 3) * Math.PI / 180, for Math.random() = r / 1000
NewAngle(r) == RoundDiv((r * 13 + 3000) * PiOver180, 1000)

\* Variant: a new target only once the angle equals the target
NeedsNewTarget_Exact(z, target) == z = target

\* Variant: tolerance of 0.1 rad instead of 0.001 rad
NeedsNewTarget_Loose(z, target) == Abs(z - target) < 100 * Epsilon

\* Math.abs(this.pivot.rotation.z - this.targetRotation) < 0.001
NeedsNewTarget(z, target) == Abs(z - target) < Epsilon

\* this.pivot.rotation.z + (Math.random() > 0.5 ? newAngle : -newAngle)
NewTarget(z, r1, r2) ==
    IF r2 > 500 THEN z + NewAngle(r1) ELSE z - NewAngle(r1)

\* Variant: a factor of 1.5 instead of 0.0015
Approach_Overshoot(z, target) == z + RoundDiv((target - z) * 3, 2)

\* this.pivot.rotation.z += (this.targetRotation - this.pivot.rotation.z) * rotationSpeed
Approach(z, target) == z + RoundDiv((target - z) * RotationSpeed, 10000)

\* Variant: the interpolation in an else branch, skipped by a tick that
\* draws a target
UpdateRotation_Else(p, t, r1, r2) ==
    IF p = NULL THEN [pivot |-> p, target |-> t]
    ELSE LET z == p.rotation.z
         IN  IF NeedsNewTarget(z, t)
             THEN [pivot |-> p, target |-> NewTarget(z, r1, r2)]
             ELSE [pivot |-> [p EXCEPT !.rotation.z = Approach(z, t)],
                   target |-> t]

\* Variant: the interpolation written to rotation.y
UpdateRotation_WrongAxis(p, t, r1, r2) ==
    IF p = NULL THEN [pivot |-> p, target |-> t]
    ELSE LET z == p.rotation.z
             t1 == IF NeedsNewTarget(z, t) THEN NewTarget(z, r1, r2) ELSE t
         IN  [pivot |-> [p EXCEPT !.rotation.y = Approach(z, t1)],
              target |-> t1]

\* updateRotation() on pivot p and target t, with r1, r2 the values the two
\* Math.random() calls would return; gives the new pivot and target
UpdateRotation(p, t, r1, r2) ==
    IF p = NULL THEN [pivot |-> p, target |-> t]
    ELSE LET z == p.rotation.z
             t1 == IF NeedsNewTarget(z, t) THEN NewTarget(z, r1, r2) ELSE t
         IN  [pivot |-> [p EXCEPT !.rotation.z = Approach(z, t1)],
              target |-> t1]

\* The values the Math.random() calls of one updateRotation() can return:
\* it calls Math.random() twice when it draws a target, and not otherwise
RandomDraws(p, t) ==
    IF p # NULL /\ NeedsNewTarget(p.rotation.z, t)
    THEN RandVals \X RandVals
    ELSE {<<0, 0>>}

\* composer.render(): what is drawn is the scene as it is now
Render(children, p) == [scene |-> children, pivot |-> p]

\* ------------------------------------------------------------------------
\* State after `new Renderer()`: the constructor has set up the camera, the
\* renderer, the composer and the three lights, and loadModel() has issued
\* the material request.  Nothing has been rendered.

\* window.innerWidth when the page is constructed; any other width in Widths
\* is reached by a resize
InitialWidth == 1280

ProgramInit ==
    /\ mtlState = "pending"
    /\ objState = "none"
    /\ model = NULL
    /\ pivot = NULL
    /\ targetRotation = 0
    /\ isAnimating = FALSE
    /\ rafPending = 0
    /\ camera = SetupCamera(InitialWidth)
    /\ viewSize = <<InitialWidth, ScreenHeight>>
    /\ sceneChildren = <<"ambientLight", "mainLight", "fillLight">>
    /\ drawn = NULL
    /\ errorLog = <<>>
    /\ framingSteps = <<>>
    /\ targetsDrawn = 0

Init == ProgramInit /\ probe = NULL

\* Variant: the scene rendered before updateRotation()
RunAnimate_RenderFirst(p, children, pending, r1, r2) ==
    LET u == UpdateRotation(p, targetRotation, r1, r2)
        draws == p # NULL /\ NeedsNewTarget(p.rotation.z, targetRotation)
    IN  /\ draws => targetsDrawn < MaxTargets
        /\ rafPending' = pending + 1
        /\ drawn' = Render(children, p)
        /\ pivot' = u.pivot
        /\ targetRotation' = u.target
        /\ targetsDrawn' = IF draws THEN targetsDrawn + 1 ELSE targetsDrawn

\* animate(): register the next frame callback, updateRotation(), render.
\* p is this.pivot and children the scene's children when animate() is
\* entered, pending the callbacks registered and not yet run.
RunAnimate(p, children, pending, r1, r2) ==
    LET u == UpdateRotation(p, targetRotation, r1, r2)
        draws == p # NULL /\ NeedsNewTarget(p.rotation.z, targetRotation)
    IN  /\ draws => targetsDrawn < MaxTargets
        /\ rafPending' = pending + 1
        /\ pivot' = u.pivot
        /\ targetRotation' = u.target
        /\ targetsDrawn' = IF draws THEN targetsDrawn + 1 ELSE targetsDrawn
        /\ drawn' = Render(children, u.pivot)

\* Variant: the animation started as soon as the materials are loaded
MtlSuccess_StartsLoop ==
    /\ UNCHANGED probe
    /\ mtlState = "pending"
    /\ mtlState' = "loaded"
    /\ objState' = "pending"
    /\ RunAnimate(pivot, sceneChildren, rafPending, 0, 0)
    /\ UNCHANGED <<model, isAnimating, camera, viewSize, sceneChildren,
                   errorLog, framingSteps>>

\* MTL success callback: preload the materials, issue the mesh request
MtlSuccess ==
    /\ UNCHANGED probe
    /\ mtlState = "pending"
    /\ mtlState' = "loaded"
    /\ objState' = "pending"
    /\ UNCHANGED <<model, pivot, targetRotation, isAnimating, rafPending,
                   camera, viewSize, sceneChildren, drawn, errorLog,
                   framingSteps, targetsDrawn>>

\* Variant: the mesh loaded without materials when the material load fails
MtlError_LoadsMesh ==
    /\ UNCHANGED probe
    /\ mtlState = "pending"
    /\ mtlState' = "failed"
    /\ objState' = "pending"
    /\ errorLog' = Append(errorLog, "Error loading MTL:")
    /\ UNCHANGED <<model, pivot, targetRotation, isAnimating, rafPending,
                   camera, viewSize, sceneChildren, drawn, framingSteps,
                   targetsDrawn>>

\* MTL error callback
MtlError ==
    /\ UNCHANGED probe
    /\ mtlState = "pending"
    /\ mtlState' = "failed"
    /\ errorLog' = Append(errorLog, "Error loading MTL:")
    /\ UNCHANGED <<objState, model, pivot, targetRotation, isAnimating,
                   rafPending, camera, viewSize, sceneChildren, drawn,
                   framingSteps, targetsDrawn>>

\* Variant: the animation started by the OBJ error callback too, to render
\* the scene without the mesh
ObjError_StartsLoop ==
    /\ UNCHANGED probe
    /\ objState = "pending"
    /\ objState' = "failed"
    /\ errorLog' = Append(errorLog, "Error loading OBJ:")
    /\ isAnimating' = TRUE
    /\ RunAnimate(pivot, sceneChildren, rafPending, 0, 0)
    /\ UNCHANGED <<mtlState, model, camera, viewSize, sceneChildren,
                   framingSteps>>

\* Variant: loadModel() called again when the mesh load fails
ObjError_Retry ==
    /\ UNCHANGED probe
    /\ objState = "pending"
    /\ objState' = "failed"
    /\ mtlState' = "pending"
    /\ errorLog' = Append(errorLog, "Error loading OBJ:")
    /\ UNCHANGED <<model, pivot, targetRotation, isAnimating, rafPending,
                   camera, viewSize, sceneChildren, drawn, framingSteps,
                   targetsDrawn>>

\* OBJ error callback
ObjError ==
    /\ UNCHANGED probe
    /\ objState = "pending"
    /\ objState' = "failed"
    /\ errorLog' = Append(errorLog, "Error loading OBJ:")
    /\ UNCHANGED <<mtlState, model, pivot, targetRotation, isAnimating,
                   rafPending, camera, viewSize, sceneChildren, drawn,
                   framingSteps, targetsDrawn>>

\* Variant: the pivot created but not added to the scene
ObjSuccess_NoSceneAdd ==
    /\ UNCHANGED probe
    /\ objState = "pending"
    /\ \E g \in Geometries :
          LET c == FrameObject(LoadedObject(g), camera)
              newPivot == [position |-> c.pivotPosition,
                           rotation |-> [x |-> 0, y |-> 0, z |-> 0],
                           children |-> <<c.object>>]
              children == sceneChildren
          IN  /\ objState' = "loaded"
              /\ sceneChildren' = children
              /\ model' = c.object
              /\ framingSteps' = c.steps
              /\ IF ~isAnimating
                 THEN /\ isAnimating' = TRUE
                      /\ \E r \in RandomDraws(newPivot, targetRotation) :
                            RunAnimate(newPivot, children, rafPending, r[1], r[2])
                 ELSE /\ pivot' = newPivot
                      /\ UNCHANGED <<isAnimating, targetRotation, rafPending,
                                     drawn, targetsDrawn>>
    /\ UNCHANGED <<mtlState, camera, viewSize, errorLog>>

\* OBJ success callback: frame the object, create the pivot, add it to the
\* scene, and start the animation, whose first animate() runs inside the
\* callback
ObjSuccess ==
    /\ UNCHANGED probe
    /\ objState = "pending"
    /\ \E g \in Geometries :
          LET c == FrameObject(LoadedObject(g), camera)
              newPivot == [position |-> c.pivotPosition,
                           rotation |-> [x |-> 0, y |-> 0, z |-> 0],
                           children |-> <<c.object>>]
              children == Append(sceneChildren, "pivot")
          IN  /\ objState' = "loaded"
              /\ sceneChildren' = children
              /\ model' = c.object
              /\ framingSteps' = c.steps
              /\ IF ~isAnimating
                 THEN /\ isAnimating' = TRUE
                      /\ \E r \in RandomDraws(newPivot, targetRotation) :
                            RunAnimate(newPivot, children, rafPending, r[1], r[2])
                 ELSE /\ pivot' = newPivot
                      /\ UNCHANGED <<isAnimating, targetRotation, rafPending,
                                     drawn, targetsDrawn>>
    /\ UNCHANGED <<mtlState, camera, viewSize, errorLog>>

\* Variant: a resize that also moves the camera, to keep the horizontal
\* extent of the view
OnWindowResize_MovesCamera ==
    /\ UNCHANGED probe
    /\ \E w \in Widths :
          /\ camera' = [camera EXCEPT
                          !.aspect = RoundDiv(w * 1000, ScreenHeight),
                          !.position = <<RoundDiv(CameraPosition[1] * w, InitialWidth), 0, 0>>]
          /\ viewSize' = <<w, ScreenHeight>>
    /\ UNCHANGED <<mtlState, objState, model, pivot, targetRotation,
                   isAnimating, rafPending, sceneChildren, drawn, errorLog,
                   framingSteps, targetsDrawn>>

\* The window is resized to width w and onWindowResize() runs
OnWindowResize ==
    /\ UNCHANGED probe
    /\ \E w \in Widths :
          /\ camera' = [camera EXCEPT !.aspect = RoundDiv(w * 1000, ScreenHeight)]
          /\ viewSize' = <<w, ScreenHeight>>
    /\ UNCHANGED <<mtlState, objState, model, pivot, targetRotation,
                   isAnimating, rafPending, sceneChildren, drawn, errorLog,
                   framingSteps, targetsDrawn>>

\* The browser runs the callback registered with requestAnimationFrame
Animate ==
    /\ UNCHANGED probe
    /\ rafPending > 0
    /\ \E r \in RandomDraws(pivot, targetRotation) :
          RunAnimate(pivot, sceneChildren, rafPending - 1, r[1], r[2])
    /\ UNCHANGED <<mtlState, objState, model, isAnimating, camera, viewSize,
                   sceneChildren, errorLog, framingSteps>>

Next ==
    \/ MtlSuccess
    \/ MtlError
    \/ ObjSuccess
    \/ ObjError
    \/ OnWindowResize
    \/ Animate

Spec == Init /\ [][Next]_vars

\* The browser runs a registered frame callback at the next display frame
FairSpec == Spec /\ WF_vars(Animate)

\* ------------------------------------------------------------------------
\* The framing code as a function of the camera and the mesh.  loadModel
\* reads this.camera.fov and this.camera.position and the bounds of the
\* object it is given; here it is applied to cameras and meshes other than
\* the ones setupCamera and the three geometries above provide.

\* Cameras: the one of setupCamera, two further away (viewport heights 5 and
\* 10), and one at the origin
ProbeCameras ==
    { [fov |-> CameraFov, aspect |-> 1185, position |-> pos] :
        pos \in { CameraPosition, <<15823, 0, 0>>, <<31646, 0, 0>>, <<0, 0, 0>> } }

\* Bounding boxes: three corners, every size with extents 0, 1, 2 or 4
ProbeGeometries ==
    { [min |-> m, max |-> [i \in 1..3 |-> m[i] + d[i]]] :
        m \in { <<0, 0, 0>>, <<-1000, -1000, -1000>>, <<0, -500, 1000>> },
        d \in {0, 1000, 2000, 4000} \X {0, 1000, 2000, 4000} \X {0, 1000, 2000, 4000} }

programVars == <<mtlState, objState, model, pivot, targetRotation,
                 isAnimating, rafPending, camera, viewSize, sceneChildren,
                 drawn, errorLog, framingSteps, targetsDrawn>>

FramingInit ==
    /\ ProgramInit
    /\ \E cam \in ProbeCameras, g \in ProbeGeometries :
          probe = [camera |-> cam, geometry |-> g, result |-> NULL]

\* The OBJ success callback's framing applied to the probe's camera and mesh
ProbeFrame ==
    /\ probe.result = NULL
    /\ probe' = [probe EXCEPT
                   !.result = FrameObject(LoadedObject(probe.geometry), probe.camera)]
    /\ UNCHANGED programVars

FramingNext == ProbeFrame

FramingSpec == FramingInit /\ [][FramingNext]_vars

\* ------------------------------------------------------------------------
\* Properties

\* A load has failed
LoadFailed == mtlState = "failed" \/ objState = "failed"

\* pivot.rotation.z as updateRotation() finds it in a step: the pivot's, or
\* that of the Group the step is about to create
AngleBefore == IF pivot # NULL THEN pivot.rotation.z ELSE 0

\* C1: the animation loop is started at most once, and only inside the OBJ
\* success callback, after framing has produced the pivot.  isAnimating is
\* set and the first frame callback registered in one and the same step, a
\* mesh-load success that leaves a framed pivot; before that step no frame
\* callback is registered and nothing is rendered; isAnimating is never
\* cleared and at most one frame callback is ever registered at a time.
C1_StartedOnceOnLoad ==
    /\ [](rafPending <= 1)
    /\ []((rafPending > 0 \/ drawn # NULL \/ targetsDrawn > 0)
            => (isAnimating /\ pivot # NULL /\ objState = "loaded"))
    /\ [][ /\ isAnimating => isAnimating'
           /\ (rafPending' > rafPending) <=> (~isAnimating /\ isAnimating')
           /\ (~isAnimating /\ isAnimating')
                => /\ objState = "pending" /\ objState' = "loaded"
                   /\ pivot = NULL /\ pivot' # NULL
                   /\ framingSteps' # <<>> ]_vars

C1_Witness ==
    /\ isAnimating /\ rafPending = 1 /\ pivot # NULL
    /\ drawn # NULL /\ targetsDrawn = MaxTargets

\* C2: a mesh load is issued only inside a material-load success, so the
\* material load having failed and a mesh load having been issued never go
\* together.
C2_NoMeshLoadAfterMtlFailure ==
    /\ [](mtlState = "failed" => objState = "none")
    /\ [](objState # "none" => mtlState = "loaded")
    /\ [][ (objState = "none" /\ objState' # "none")
             => (mtlState = "pending" /\ mtlState' = "loaded"
                 /\ objState' = "pending") ]_vars

C2_Witness ==
    /\ mtlState = "failed" /\ objState = "none"
    /\ errorLog = <<"Error loading MTL:">>

\* C3: a failed load is terminal: from then on pivot and model stay null,
\* the animator is not started, and no load request is pending or issued.
C3_FailureIsTerminal ==
    /\ [](LoadFailed =>
            /\ pivot = NULL /\ model = NULL
            /\ ~isAnimating /\ rafPending = 0 /\ drawn = NULL
            /\ mtlState # "pending" /\ objState # "pending")
    /\ [][ LoadFailed => (mtlState' = mtlState /\ objState' = objState) ]_vars

C3_Witness ==
    /\ objState = "failed" /\ mtlState = "loaded"
    /\ pivot = NULL /\ model = NULL /\ ~isAnimating

\* C4: a load failure does not stop rendering: after a load has failed the
\* render loop is running, that is, a frame callback is registered, so that
\* every display frame the browser delivers renders the scene.
C4_RendersAfterFailure == LoadFailed => rafPending > 0

\* C5: the target is replaced only by an animator tick that starts with
\* |pivot.rotation.z - targetRotation| < 0.001; a frame tick that starts
\* with the difference at 0.001 or more leaves the target unchanged.
C5_TargetReplacedOnlyWhenConverged ==
    [][ /\ (targetRotation' # targetRotation)
             => /\ Animate \/ ObjSuccess
                /\ Abs(AngleBefore - targetRotation) < Epsilon
        /\ (Animate /\ Abs(AngleBefore - targetRotation) >= Epsilon)
             => targetRotation' = targetRotation ]_vars

C5_Witness ==
    /\ targetsDrawn = 2 /\ pivot # NULL
    /\ Abs(targetRotation - pivot.rotation.z) > 50 * Epsilon

\* C6: in every tick with a pivot present the convergence check runs first
\* and the approach always runs afterwards with the target as it then is:
\* from angle c, the tick leaves the angle at c + (T - c) * 0.0015 with T
\* the target after the tick, and T is a new target exactly when the tick
\* started converged.
C6_ApproachUsesNewTarget ==
    [][ ((Animate \/ ObjSuccess) /\ pivot' # NULL)
          => /\ pivot'.rotation.z =
                  AngleBefore
                  + RoundDiv((targetRotation' - AngleBefore) * RotationSpeed, 10000)
             /\ (targetRotation' # targetRotation)
                  <=> (Abs(AngleBefore - targetRotation) < Epsilon) ]_vars

\* Right after a tick that drew a target 16 degrees away from a converged,
\* non-zero angle and took its one step towards it
C6_Witness ==
    /\ targetsDrawn = 2 /\ pivot # NULL
    /\ Abs(pivot.rotation.z) > 50 * Epsilon
    /\ Abs(targetRotation - pivot.rotation.z) > 278500

\* C7: a frame tick that does not replace the target strictly decreases
\* |targetRotation - pivot.rotation.z|, does not make it zero, and does not
\* flip the sign of targetRotation - pivot.rotation.z.
C7_ApproachNeverOvershoots ==
    [][ (Animate /\ pivot # NULL /\ targetRotation' = targetRotation)
          => LET before == targetRotation - pivot.rotation.z
                 after == targetRotation' - pivot'.rotation.z
             IN  /\ Abs(after) < Abs(before)
                 /\ after # 0
                 /\ Sign(after) = Sign(before) ]_vars

\* Late in the second approach, after many ticks that kept the target
C7_Witness ==
    /\ targetsDrawn = 2 /\ pivot # NULL
    /\ Abs(targetRotation - pivot.rotation.z) >= Epsilon
    /\ Abs(targetRotation - pivot.rotation.z) < 2 * Epsilon

\* 3 degrees and 16 degrees in units of 1e-6 rad, rounded outwards
ThreeDegrees == 52359

SixteenDegrees == 279253

\* C8: a tick that replaces the target sets it to the angle at the start of
\* the tick plus or minus an offset of magnitude within [3, 16] degrees.
C8_NewTargetOffsetInRange ==
    [][ (targetRotation' # targetRotation)
          => /\ Abs(targetRotation' - AngleBefore) >= ThreeDegrees
             /\ Abs(targetRotation' - AngleBefore) <= SixteenDegrees ]_vars

\* Both signs: the first target was above 0 (the angle has risen to it) and
\* the second, just drawn, is below the angle
C8_Witness ==
    /\ targetsDrawn = 2 /\ pivot # NULL
    /\ pivot.rotation.z > ThreeDegrees - 2 * Epsilon
    /\ targetRotation < pivot.rotation.z - ThreeDegrees + Epsilon

\* The largest extent of a geometry's bounding box
MaxExtent(g) ==
    Max(Max(g.max[1] - g.min[1], g.max[2] - g.min[2]), g.max[3] - g.min[3])

\* C9: framing a mesh whose largest bounding dimension is <= 0 is aborted:
\* no pivot is created or added to the scene and the animator is not
\* started.
C9_DegenerateMeshAborts ==
    (objState = "loaded" /\ MaxExtent(model.geometry) <= 0)
      => /\ pivot = NULL
         /\ \A i \in 1..Len(sceneChildren) : sceneChildren[i] # "pivot"
         /\ ~isAnimating /\ rafPending = 0

\* Position of a step in the list of framing steps (0 if absent)
StepIndex(name) ==
    IF \E i \in 1..Len(framingSteps) : framingSteps[i] = name
    THEN CHOOSE i \in 1..Len(framingSteps) : framingSteps[i] = name
    ELSE 0

\* C10 as stated: the mesh is reset to the origin and to identity rotation
\* before the initial bounds are measured; the scale is applied after that
\* measurement, then the fixed rotation, then the second measurement.
C10_ResetBeforeFirstMeasure ==
    objState = "loaded"
      => /\ 0 < StepIndex("reset")
         /\ StepIndex("reset") < StepIndex("measureB0")
         /\ StepIndex("measureB0") < StepIndex("scale")
         /\ StepIndex("scale") < StepIndex("rotate")
         /\ StepIndex("rotate") < StepIndex("measureB1")

\* C10 amended: the initial bounds are measured first, on the mesh as the
\* loader delivered it; then the scale derived from them is applied, then
\* position and rotation are reset, then the fixed rotation is applied, then
\* the bounds are measured again.  The scale is the one derived from the
\* extents of the untransformed geometry.
C10_MeasureScaleResetRotateMeasure ==
    objState = "loaded"
      => /\ framingSteps = <<"measureB0", "scale", "reset", "rotate", "measureB1">>
         /\ model.scale =
              FDiv(Num(RoundDiv(ViewportHeight(camera) * FillFactor, 1000)),
                   Num(MaxExtent(model.geometry)))
         /\ model.position = <<0, 0, 0>>
         /\ model.rotation = <<-90, 90, 0>>

C10_Witness ==
    /\ objState = "loaded" /\ pivot # NULL
    /\ Len(framingSteps) = 5
    /\ IsNum(model.scale) /\ model.scale.v # 1000

\* ------------------------------------------------------------------------
\* Properties of the framing code

\* The framing code has run on the probe
Framed == probe # NULL /\ probe.result # NULL

\* C11: for a mesh whose largest initial extent is > 0 and any viewport
\* height H, the scale set on the mesh is (H * 3.2) / max(sx, sy, sz), one
\* value for all three axes, so that the largest extent of the scaled mesh
\* is H * 3.2 (to within rounding); size (2,2,2) and H = 5 give scale 8.
C11_ScaleFillsViewport ==
    (Framed /\ MaxExtent(probe.geometry) > 0)
      => LET H == ViewportHeight(probe.camera)
             maxDim == MaxExtent(probe.geometry)
             scale == probe.result.object.scale
             scaled == GetSize(ComputeBounds(probe.result.object))
         IN  /\ IsNum(scale)
             /\ Abs(scale.v * maxDim - H * 3200) <= maxDim
             /\ \A i \in 1..3 : IsNum(scaled[i]) /\ scaled[i].v <= RoundDiv(H * 32, 10) + 5
             /\ \E i \in 1..3 : Abs(scaled[i].v - RoundDiv(H * 32, 10)) <= 5
             /\ (H = 5000 /\ \A i \in 1..3 :
                                probe.geometry.max[i] - probe.geometry.min[i] = 2000)
                  => scale.v = 8000

C11_Witness ==
    /\ Framed
    /\ ViewportHeight(probe.camera) = 5000
    /\ probe.geometry = [min |-> <<-1000, -1000, -1000>>, max |-> <<1000, 1000, 1000>>]
    /\ probe.result.object.scale = Num(8000)

\* C12: the pivot is placed at (-center1.x, size1.y / 2 - H * 0.4,
\* -center1.z), center1 and size1 being the bounds of the mesh once it is
\* scaled and laid flat; for H = 10 the second coordinate is size1.y / 2 - 4.
C12_PivotOffsetFromRotatedBounds ==
    (Framed /\ MaxExtent(probe.geometry) > 0)
      => LET H == ViewportHeight(probe.camera)
             final == probe.result.object
             center1 == GetCenter(ComputeBounds(final))
             size1 == GetSize(ComputeBounds(final))
             position == probe.result.pivotPosition
         IN  /\ final.rotation = <<-90, 90, 0>>
             /\ final.scale = probe.result.scale
             /\ \A i \in 1..3 : IsNum(position[i])
             /\ position[1].v = -center1[1].v
             /\ position[2].v = RoundDiv(size1[2].v, 2) - RoundDiv(H * 4, 10)
             /\ position[3].v = -center1[3].v
             /\ (H = 10000) => position[2].v = RoundDiv(size1[2].v, 2) - 4000

\* A box off centre under H = 10, where the original bounds would give
\* another offset
C12_Witness ==
    /\ Framed
    /\ ViewportHeight(probe.camera) = 10000
    /\ probe.geometry = [min |-> <<0, -500, 1000>>, max |-> <<4000, 500, 3000>>]
    /\ probe.result.pivotPosition[1] # FNeg(probe.result.center[1])
    /\ probe.result.pivotPosition[2].v
         # RoundDiv(probe.result.size[2].v, 2) - 4000

\* ------------------------------------------------------------------------
\* Properties of the program (continued)

\* Number of times the pivot is among the scene's children
PivotsInScene ==
    Cardinality({i \in 1..Len(sceneChildren) : sceneChildren[i] = "pivot"})

\* C13: the pivot is absent, or it is a child of the scene with the loaded
\* mesh as its only child; it is created by a successful mesh load and by
\* nothing else, once; once created, the pivot, its position, its child
\* and its place in the scene are never replaced or removed.
C13_PivotOwnsMeshForGood ==
    /\ [](pivot = NULL => (PivotsInScene = 0 /\ model = NULL))
    /\ [](pivot # NULL =>
            /\ PivotsInScene = 1
            /\ model # NULL
            /\ pivot.children = <<model>>)
    /\ [][ /\ (pivot = NULL /\ pivot' # NULL)
                <=> (objState = "pending" /\ objState' = "loaded")
           /\ pivot # NULL
                => /\ pivot' # NULL
                   /\ pivot'.position = pivot.position
                   /\ pivot'.children = pivot.children
                   /\ model' = model
                   /\ sceneChildren' = sceneChildren
                   /\ objState' = "loaded" ]_vars

\* Long after the load: the second target drawn, the pivot still in place
C13_Witness ==
    /\ pivot # NULL /\ PivotsInScene = 1 /\ pivot.children = <<model>>
    /\ targetsDrawn = 2 /\ pivot.rotation.z # 0
    /\ IsNum(pivot.position[2])

\* C14: pivot.rotation.z has one writer, the animator tick.  A step changes
\* the rotation of an existing pivot or the target only if it runs
\* animate(); the callbacks that do not (MTL success and error, OBJ error,
\* resize) leave pivot and target alone; the OBJ success callback creates the
\* pivot with rotation 0 and the tick it runs moves z only; and a frame
\* changes nothing of the program's state but pivot.rotation.z and
\* targetRotation.
C14_RotationHasOneWriter ==
    [][ /\ (pivot # NULL /\ pivot'.rotation # pivot.rotation) => Animate
        /\ (targetRotation' # targetRotation) => (Animate \/ ObjSuccess)
        /\ (MtlSuccess \/ MtlError \/ ObjError \/ OnWindowResize)
             => (pivot' = pivot /\ targetRotation' = targetRotation)
        /\ pivot' # NULL => (pivot'.rotation.x = 0 /\ pivot'.rotation.y = 0)
        /\ (Animate /\ pivot # NULL)
             => /\ pivot' = [pivot EXCEPT !.rotation.z = pivot'.rotation.z]
                /\ UNCHANGED <<mtlState, objState, model, isAnimating,
                               rafPending, camera, viewSize, sceneChildren,
                               errorLog, framingSteps>> ]_vars

\* Late in the first approach, at the larger window width
C14_Witness ==
    /\ pivot # NULL /\ targetsDrawn = 1
    /\ pivot.rotation.z # 0 /\ pivot.rotation.z # targetRotation
    /\ drawn # NULL /\ drawn.pivot = pivot
    /\ viewSize[1] = 1920
    /\ Abs(targetRotation - pivot.rotation.z) < 10 * Epsilon

\* C15: once the animator runs there is exactly one frame callback
\* registered at any time, and every frame (the first, run by the OBJ
\* success callback, included) does one tick, then renders the scene with
\* the pivot as the tick left it, and leaves exactly one callback registered.
C15_OneTickThenOneRenderPerFrame ==
    /\ [](isAnimating <=> rafPending = 1)
    /\ [](rafPending \in {0, 1})
    /\ [][ (Animate \/ ObjSuccess)
             => /\ rafPending' = 1
                /\ pivot'.rotation.z =
                     AngleBefore
                     + RoundDiv((targetRotation' - AngleBefore) * RotationSpeed, 10000)
                /\ targetsDrawn' \in {targetsDrawn, targetsDrawn + 1}
                /\ drawn' = [scene |-> sceneChildren', pivot |-> pivot'] ]_vars

\* Part of the way through the first approach, the last frame on screen
C15_Witness ==
    /\ isAnimating /\ rafPending = 1 /\ targetsDrawn = 1
    /\ drawn # NULL /\ drawn.pivot = pivot
    /\ drawn.scene = sceneChildren
    /\ Abs(targetRotation - pivot.rotation.z) >= 20 * Epsilon
    /\ Abs(targetRotation - pivot.rotation.z) < 21 * Epsilon

C17_EveryApproachConverges ==
    [](isAnimating
         => <>(/\ targetsDrawn = MaxTargets
               /\ pivot # NULL
               /\ Abs(pivot.rotation.z - targetRotation) < Epsilon))

\* The last approach has converged as well
C17_Witness ==
    /\ isAnimating /\ pivot # NULL /\ targetsDrawn = MaxTargets
    /\ Abs(pivot.rotation.z - targetRotation) < Epsilon
    /\ pivot.rotation.z # 0

\* C18: the animator never ticks without a pivot: whenever isAnimating is
\* set or a frame callback is registered, pivot and model are non-null, so
\* no frame finds this.pivot null and updateRotation() never returns early.
C18_NoTickWithoutPivot ==
    /\ []((isAnimating \/ rafPending > 0) => (pivot # NULL /\ model # NULL))
    /\ [][ Animate => (pivot # NULL /\ pivot'.rotation.z # pivot.rotation.z) ]_vars

\* Right after the first frame, run by the OBJ success callback
C18_Witness ==
    /\ isAnimating /\ rafPending = 1 /\ pivot # NULL /\ model # NULL
    /\ targetsDrawn = 1
    /\ Abs(targetRotation) > 278500
    /\ pivot.rotation.z = RoundDiv(targetRotation * RotationSpeed, 10000)

\* C19: resizing the window, at any point of the load, does not change the
\* framing.  A step that changes the camera or the view size keeps the field
\* of view, the camera position, the mesh and the pivot, so the viewport
\* height stays that of the camera as constructed, and the scale and pivot
\* offset of a loaded mesh are those computed with that camera.
C19_ResizeKeepsFraming ==
    /\ [][ (camera' # camera \/ viewSize' # viewSize)
             => /\ camera'.fov = camera.fov
                /\ camera'.position = camera.position
                /\ UNCHANGED <<model, pivot, framingSteps, sceneChildren>> ]_vars
    /\ [](ViewportHeight(camera) = ViewportHeight(SetupCamera(InitialWidth)))
    /\ [](model # NULL
            => LET c == FrameObject(LoadedObject(model.geometry),
                                    SetupCamera(InitialWidth))
               IN  /\ model.scale = c.object.scale
                   /\ pivot.position = c.pivotPosition)

\* A mesh framed in a window that has been resized from InitialWidth
C19_Witness ==
    /\ viewSize[1] # InitialWidth
    /\ camera.aspect # SetupCamera(InitialWidth).aspect
    /\ model # NULL /\ pivot # NULL
    /\ IsNum(model.scale)
    /\ framingSteps # <<>>

====
